---- MODULE Spec2Model ----
(***************************************************************************)
(* ExtensionManager (extensionManager.ts): the session supervisor of the   *)
(* VSCode extension testing tools.                                         *)
(*                                                                         *)
(* The manager runs on the Node.js event loop.  Every action below is one  *)
(* event-loop callback (a tool call arriving, a child-process event, a     *)
(* timer) run up to the point where the code awaits; the continuations of  *)
(* resolved promises are queued in `microtasks` and are drained before the *)
(* next callback is taken, as the event loop does.                         *)
(***************************************************************************)
EXTENDS Integers, Sequences, FiniteSets, TLC

\* ------------------------------------------------------------------ bounds
NumIds == 2
NumDirs == 1
MaxStops == 2
MaxWaiters == 1
MaxRepeats == 1
MaxChunks == 2
MaxTicks == 2

\* ------------------------------------------------------- program constants
\* `null` / `undefined`: no session id, no session object, no callback.
NULL == 0
\* As the content of a prompt file: the prompt write_prompt_file writes, with
\* a session id made up for it that belongs to no session.
FakePrompt == -1
\* setTimeout(..., 5000) in stopCurrentSession.
GracePeriodMs == 5000
\* const maxLength = 1000 in the tools.
maxLength == 1000

\* The clock advances in steps of half a grace period.
TickMs == GracePeriodMs \div 2

SessionIds == 1..NumIds
TestDirs == 1..NumDirs
Chunks == {"x", "y"}
\* The code of an 'exit' event: a number, or null when a signal ended the process.
ExitCodes == {"0", "15"}

VARIABLES
    sessions,                   \* Map<string, ExtensionProcess>: id -> session object (index in objs), NULL when absent
    currentSessionId,           \* string | null
    sessionCompletionCallbacks, \* Map<string, resolve>: id -> waiter (index in waiters), NULL when absent
    objs,                       \* every ExtensionProcess object created so far, with its child process
    files,                      \* <dir>/.PROMPT: the session object whose prompt it holds, NULL when the file does not exist
    waiters,                    \* the promises returned by waitForSessionCompletion
    stops,                      \* the calls of stopCurrentSession / stopSessionById
    microtasks,                 \* continuations of resolved promises, in queue order
    now,                        \* Date.now(), in ms
    dirs,                       \* fs.existsSync(dir), for every test directory
    visiblePrompts,             \* per test directory, the prompt in its PROMPT.txt file, NULL when there is none
    lastResponse,               \* the results text of the tool response formatted in the last step, NoResponse when none was
    lastWrite,                  \* what the call of write_prompt_file made in the last step did, NoWrite when it made none
    lastLaunch                  \* how the call of launchExtension made in the last step ended, NoLaunch when it made none

vars == <<sessions, currentSessionId, sessionCompletionCallbacks, objs, files,
          waiters, stops, microtasks, now, dirs, visiblePrompts,
          lastResponse, lastWrite, lastLaunch>>

\* ----------------------------------------------------------------- helpers
Indices(s) == [i \in 1..Len(s) |-> i]

\* Mutant of StopResult: the exit code is read from the process object
\* (ChildProcess.exitCode), not from what the call's own listener has seen.
StopResultProcessCode(o, duration, exitCode) ==
    [sessionId |-> objs[o].sessionId, duration |-> duration,
     exitCode |-> objs[o].exitCode, output |-> o, errors |-> o]

\* StopResult.  output and errors are the session object's own arrays (the
\* result holds references to them), so they are kept as the object's index.
StopResult(o, duration, exitCode) ==
    [sessionId |-> objs[o].sessionId, duration |-> duration,
     exitCode |-> exitCode, output |-> o, errors |-> o]

\* Mutant of Kill: the signal is recorded whether or not the handle is open.
KillUnchecked(obj, sig) ==
    [obj EXCEPT !.killed = TRUE, !.signals = Append(@, sig)]

\* ChildProcess.kill(sig): the signal is sent while the process handle is
\* open, and `killed` is then set; after the 'exit' event it does nothing.
Kill(obj, sig) ==
    IF obj.handle = "open"
    THEN [obj EXCEPT !.killed = TRUE, !.signals = Append(@, sig)]
    ELSE obj

\* fs.existsSync(promptFilePath) then fs.unlinkSync(promptFilePath), inside a
\* try/catch: unlinkSync removes the file or throws and leaves it.
Unlink(fs, dir, unlinkOk) == IF unlinkOk THEN [fs EXCEPT ![dir] = NULL] ELSE fs

\* unlinkSync can only throw when it is called, that is when the file exists.
CanFail(fs, dir, unlinkOk) == unlinkOk \/ fs[dir] # NULL

\* callback(result): resolving the waiter's promise.
Resolve(ws, w, result) == [ws EXCEPT ![w].delivered = Append(@, result)]

MapDelete(m, k) == [m EXCEPT ![k] = NULL]

\* How a call of launchExtension can end, by the first step of it that
\* fails: the extension path does not exist, mkdirSync throws, writeFileSync
\* throws, spawn throws, spawn reports its error later by an 'error' event
\* (ENOENT, EACCES: the call itself goes on), or nothing fails.
LaunchOutcomes ==
    {"pathMissing", "mkdirFailed", "writeFailed", "spawnThrew", "spawnError", "ok"}

\* The error thrown: its message and the path the message names.
LaunchError(outcome) ==
    CASE outcome = "pathMissing" ->
             [message |-> "Extension path does not exist", names |-> "extensionPath"]
      [] outcome = "mkdirFailed" -> [message |-> "mkdir", names |-> "dir"]
      [] outcome = "writeFailed" -> [message |-> "open", names |-> "promptFilePath"]
      [] outcome = "spawnThrew" -> [message |-> "spawn", names |-> "code"]
      [] OTHER -> [message |-> "", names |-> ""]

\* No call of launchExtension.
NoLaunch ==
    [dir |-> NULL, mkdir |-> FALSE, outcome |-> "none", error |-> LaunchError("none"),
     session |-> NULL]

\* No response formatted.
NoResponse == [tool |-> "none", results |-> <<>>]

\* No call of write_prompt_file.
NoWrite == [dir |-> NULL, outcome |-> "none", prompt |-> FALSE, copy |-> FALSE,
            isError |-> FALSE]

\* Mutant of getCurrentSession: the first session of the map, whichever is current.
getFirstSession ==
    IF \A id \in SessionIds : sessions[id] = NULL THEN NULL
    ELSE sessions[CHOOSE id \in SessionIds :
                     sessions[id] # NULL /\ \A j \in SessionIds : sessions[j] # NULL => id <= j]

getCurrentSession ==
    IF currentSessionId = NULL THEN NULL ELSE sessions[currentSessionId]

getAllSessions == {sessions[id] : id \in {i \in SessionIds : sessions[i] # NULL}}

Init ==
    /\ sessions = [id \in SessionIds |-> NULL]
    /\ currentSessionId = NULL
    /\ sessionCompletionCallbacks = [id \in SessionIds |-> NULL]
    /\ objs = <<>>
    /\ files = [d \in TestDirs |-> NULL]
    /\ waiters = <<>>
    /\ stops = <<>>
    /\ microtasks = <<>>
    /\ now = 0
    /\ dirs \in [TestDirs -> BOOLEAN]
    /\ lastLaunch = NoLaunch
    /\ lastWrite = NoWrite
    /\ visiblePrompts = [d \in TestDirs |-> NULL]
    /\ lastResponse = NoResponse

\* ------------------------------------------------------------------ launch
\* Mutant of DirsAfterMkdir: a missing directory is not created.
DirsUntouched(ds, dir, outcome) == ds

\* fs.mkdirSync(dir, {recursive: true}) for a missing dir, once the extension
\* path was found.
DirsAfterMkdir(ds, dir, outcome) ==
    IF outcome \in {"pathMissing", "mkdirFailed"} THEN ds
    ELSE [ds EXCEPT ![dir] = TRUE]

\* Mutant of WritesPrompt: the prompt file is written before the extension
\* path is validated.
WritesPromptUnvalidated(outcome) == outcome \notin {"mkdirFailed", "writeFailed"}

\* Mutant of WritesPrompt: launchExtension writes no prompt file.
WritesNoPrompt(outcome) == FALSE

\* Whether fs.writeFileSync(promptFilePath, promptContent) is reached and succeeds.
WritesPrompt(outcome) == outcome \notin {"pathMissing", "mkdirFailed", "writeFailed"}

\* Mutant of Registers: the session is stored before the prompt file is written.
RegistersBeforeWrite(outcome) == outcome \in {"ok", "spawnError", "writeFailed"}

\* Whether the session is created, stored and made current.
Registers(outcome) == outcome \in {"ok", "spawnError"}

\* Mutant of MapSet: a new map holding only the new entry.
MapReset(m, k, v) == [i \in DOMAIN m |-> IF i = k THEN v ELSE NULL]

\* Map.set(k, v).
MapSet(m, k, v) == [m EXCEPT ![k] = v]

\* The body of launchExtension(extensionPath, prompt, dir): checks the extension path,
\* creates a missing dir, writes the prompt file, spawns the process,
\* registers the session and makes it current.  sessionId is what
\* generateSessionId returned.  The handle of a process whose spawn failed
\* is never open ("failed"): it has no pid and gets no 'exit' event.
Launch(sessionId, dir, outcome) ==
    /\ microtasks = <<>>
    /\ outcome = "mkdirFailed" => ~dirs[dir]
    /\ LET o == Len(objs) + 1 IN
        /\ dirs' = DirsAfterMkdir(dirs, dir, outcome)
        /\ files' = IF WritesPrompt(outcome) THEN [files EXCEPT ![dir] = o] ELSE files
        /\ IF Registers(outcome)
           THEN /\ objs' = Append(objs,
                       [sessionId |-> sessionId, testDir |-> dir,
                        startTime |-> now, output |-> <<>>, errors |-> <<>>,
                        stdout |-> <<>>, stderr |-> <<>>,
                        handle |-> IF outcome = "spawnError" THEN "failed" ELSE "open",
                        killed |-> FALSE, signals |-> <<>>, exitCode |-> "null"])
                /\ sessions' = MapSet(sessions, sessionId, o)
                /\ currentSessionId' = sessionId
           ELSE UNCHANGED <<objs, sessions, currentSessionId>>
        /\ lastLaunch' =
               [dir |-> dir, mkdir |-> outcome # "pathMissing" /\ ~dirs[dir],
                outcome |-> outcome, error |-> LaunchError(outcome),
                session |-> IF Registers(outcome) THEN o ELSE NULL]
    /\ lastWrite' = NoWrite
    /\ UNCHANGED <<visiblePrompts, lastResponse>>
    /\ UNCHANGED <<stops, microtasks, now>>

\* A call of launchExtension by itself.
launchExtension(sessionId, dir, outcome) ==
    /\ Launch(sessionId, dir, outcome)
    /\ UNCHANGED <<sessionCompletionCallbacks, waiters>>

\* The ids generateSessionId has returned so far.
Issued == {objs[o].sessionId : o \in DOMAIN objs}

\* generateSessionId(): a random id.  Here it is one not returned before;
\* fresh ids are interchangeable, so they are taken in increasing order.
generateSessionId ==
    {id \in SessionIds \ Issued : \A other \in SessionIds \ Issued : id <= other}

\* generateSessionId() as the code has it: "test-" and up to eight base-36
\* digits of Math.random(), compared with nothing, so that any id can come
\* out, one returned before included.  The number of launches is bounded.
generateSessionIdUnchecked == {id \in SessionIds : Len(objs) < NumIds}

RECURSIVE SumLen(_, _)
SumLen(os, n) ==
    IF n = 0 THEN 0 ELSE Len(os[n].output) + Len(os[n].errors) + SumLen(os, n - 1)

\* The chunks received so far on all streams.
ChunksReceived == SumLen(objs, Len(objs))

\* Mutant of Push: the chunk is put in front of the log.
PushFront(log, chunk) == <<chunk>> \o log

\* Array.prototype.push of the stream listeners: the chunk goes to the end.
Push(log, chunk) == Append(log, chunk)

\* vscodeProcess.stdout.on("data"): session.output.push(output).  The field
\* stdout of the object is the history of the stream, which no handler reads:
\* the chunks its 'data' events have carried, in the order of the events.
StdoutData(o, chunk) ==
    /\ microtasks = <<>>
    /\ lastLaunch' = NoLaunch
    /\ lastWrite' = NoWrite
    /\ UNCHANGED <<visiblePrompts, lastResponse>>
    /\ UNCHANGED dirs
    /\ ChunksReceived < MaxChunks
    /\ objs' = [objs EXCEPT ![o].output = Push(@, chunk),
                            ![o].stdout = Append(@, chunk)]
    /\ UNCHANGED <<sessions, currentSessionId, sessionCompletionCallbacks, files,
                   waiters, stops, microtasks, now>>

\* vscodeProcess.stderr.on("data"): session.errors.push(error); stderr is the
\* history of that stream.
StderrData(o, chunk) ==
    /\ microtasks = <<>>
    /\ lastLaunch' = NoLaunch
    /\ lastWrite' = NoWrite
    /\ UNCHANGED <<visiblePrompts, lastResponse>>
    /\ UNCHANGED dirs
    /\ ChunksReceived < MaxChunks
    /\ objs' = [objs EXCEPT ![o].errors = Push(@, chunk),
                            ![o].stderr = Append(@, chunk)]
    /\ UNCHANGED <<sessions, currentSessionId, sessionCompletionCallbacks, files,
                   waiters, stops, microtasks, now>>

\* ---------------------------------------------------------- waiting
\* Mutant of waitForSessionCompletion: resolve is stored without looking the
\* session up.
waitForSessionCompletionUnchecked(sessionId) ==
    /\ microtasks = <<>>
    /\ lastLaunch' = NoLaunch
    /\ lastWrite' = NoWrite
    /\ UNCHANGED <<visiblePrompts, lastResponse>>
    /\ UNCHANGED dirs
    /\ Len(waiters) < MaxWaiters
    /\ waiters' = Append(waiters, [sessionId |-> sessionId,
                                   status |-> "pending", delivered |-> <<>>, tool |-> FALSE])
    /\ sessionCompletionCallbacks' =
           [sessionCompletionCallbacks EXCEPT ![sessionId] = Len(waiters) + 1]
    /\ UNCHANGED <<sessions, currentSessionId, objs, files, stops, microtasks, now>>

\* The executor of the promise of waitForSessionCompletion: it throws when
\* the session is not in the map (the promise is rejected), else it stores
\* resolve as the callback of the session.
StoreResolve(sessionId) ==
    /\ microtasks = <<>>
    /\ lastLaunch' = NoLaunch
    /\ lastWrite' = NoWrite
    /\ UNCHANGED <<visiblePrompts, lastResponse>>
    /\ UNCHANGED dirs
    /\ IF sessions[sessionId] = NULL
       THEN /\ waiters' = Append(waiters, [sessionId |-> sessionId,
                                           status |-> "rejected", delivered |-> <<>>, tool |-> FALSE])
            /\ UNCHANGED sessionCompletionCallbacks
       ELSE /\ waiters' = Append(waiters, [sessionId |-> sessionId,
                                           status |-> "pending", delivered |-> <<>>, tool |-> FALSE])
            /\ sessionCompletionCallbacks' =
                   [sessionCompletionCallbacks EXCEPT ![sessionId] = Len(waiters) + 1]
    /\ UNCHANGED <<sessions, currentSessionId, objs, files, stops, microtasks, now>>

\* waitForSessionCompletion(sessionId).
waitForSessionCompletion(sessionId) ==
    /\ Len(waiters) < MaxWaiters
    /\ StoreResolve(sessionId)

\* waitForSessionCompletion(sessionId) called for a session that has a
\* callback stored already, beyond the MaxWaiters calls counted above.
waitForSessionCompletionRepeated(sessionId) ==
    /\ Len(waiters) < MaxWaiters + MaxRepeats
    /\ sessionCompletionCallbacks[sessionId] # NULL
    /\ StoreResolve(sessionId)

\* Mutant of launchDevExtension: the tool answers at once, with what the
\* session has produced so far, without waiting for its completion.
launchDevExtensionNoWait(sessionId, dir, outcome) ==
    /\ Len(waiters) < MaxWaiters
    /\ Launch(sessionId, dir, outcome)
    /\ UNCHANGED sessionCompletionCallbacks
    /\ IF Registers(outcome)
       THEN waiters' = Append(waiters,
                [sessionId |-> sessionId, status |-> "pending",
                 delivered |-> <<[sessionId |-> sessionId, duration |-> 0,
                                  exitCode |-> "null", output |-> Len(objs) + 1,
                                  errors |-> Len(objs) + 1]>>,
                 tool |-> TRUE])
       ELSE UNCHANGED waiters

\* launch_dev_extension (LaunchDevExtensionTool.execute): the tool checks the
\* workspace and extension paths, creates the test directory, awaits
\* launchExtension and then awaits waitForSessionCompletion(sessionId).  The
\* continuation of the first await is a microtask of the same callback, so no
\* other handler runs between the launch and the registration of the
\* callback.  A launch that throws is answered with an error response and
\* waits for nothing.
launchDevExtension(sessionId, dir, outcome) ==
    /\ Len(waiters) < MaxWaiters
    /\ Launch(sessionId, dir, outcome)
    /\ IF Registers(outcome)
       THEN /\ waiters' = Append(waiters,
                   [sessionId |-> sessionId, status |-> "pending",
                    delivered |-> <<>>, tool |-> TRUE])
            /\ sessionCompletionCallbacks' =
                   [sessionCompletionCallbacks EXCEPT ![sessionId] = Len(waiters) + 1]
       ELSE UNCHANGED <<waiters, sessionCompletionCallbacks>>

\* The entry of the microtask queue for the continuation of the call of
\* launch_dev_extension that waiter w stands for; the entries of the stop
\* calls are their indices.
ToolContinuation(w) == 0 - w

\* Mutant of launchDevExtensionCall: the rest of the tool is not queued as a
\* microtask of the launching callback; it is left to a later task.
launchDevExtensionCallDeferred(sessionId, dir, outcome) ==
    /\ Len(waiters) < MaxWaiters
    /\ Launch(sessionId, dir, outcome)
    /\ waiters' = IF Registers(outcome)
                  THEN Append(waiters, [sessionId |-> sessionId, status |-> "launching",
                                        delivered |-> <<>>, tool |-> TRUE])
                  ELSE waiters
    /\ UNCHANGED sessionCompletionCallbacks

\* launch_dev_extension step by step, first step: the tool up to
\* `await manager.launchExtension(...)`.  launchExtension has no await of its
\* own, so its promise is resolved when it returns and the rest of the tool
\* is queued as a microtask.  The waiter is the call: it is "launching" until
\* waitForSessionCompletion has been called.
launchDevExtensionCall(sessionId, dir, outcome) ==
    /\ Len(waiters) < MaxWaiters
    /\ microtasks = <<>>
    /\ outcome = "mkdirFailed" => ~dirs[dir]
    /\ LET o == Len(objs) + 1 IN
        /\ dirs' = DirsAfterMkdir(dirs, dir, outcome)
        /\ files' = IF WritesPrompt(outcome) THEN [files EXCEPT ![dir] = o] ELSE files
        /\ IF Registers(outcome)
           THEN /\ objs' = Append(objs,
                       [sessionId |-> sessionId, testDir |-> dir,
                        startTime |-> now, output |-> <<>>, errors |-> <<>>,
                        stdout |-> <<>>, stderr |-> <<>>,
                        handle |-> IF outcome = "spawnError" THEN "failed" ELSE "open",
                        killed |-> FALSE, signals |-> <<>>, exitCode |-> "null"])
                /\ sessions' = MapSet(sessions, sessionId, o)
                /\ currentSessionId' = sessionId
                /\ waiters' = Append(waiters,
                       [sessionId |-> sessionId, status |-> "launching",
                        delivered |-> <<>>, tool |-> TRUE])
                /\ microtasks' = <<ToolContinuation(Len(waiters) + 1)>>
           ELSE UNCHANGED <<objs, sessions, currentSessionId, waiters, microtasks>>
        /\ lastLaunch' =
               [dir |-> dir, mkdir |-> outcome # "pathMissing" /\ ~dirs[dir],
                outcome |-> outcome, error |-> LaunchError(outcome),
                session |-> IF Registers(outcome) THEN o ELSE NULL]
    /\ lastWrite' = NoWrite
    /\ UNCHANGED <<visiblePrompts, lastResponse>>
    /\ UNCHANGED <<sessionCompletionCallbacks, stops, now>>

\* launch_dev_extension step by step, second step: the tool from the return
\* of launchExtension to `await manager.waitForSessionCompletion(sessionId)`,
\* whose executor throws when the session is not in the map and stores
\* resolve otherwise.
ResumeLaunchDevExtension(w) ==
    /\ microtasks # <<>>
    /\ Head(microtasks) = ToolContinuation(w)
    /\ waiters[w].status = "launching"
    /\ lastLaunch' = NoLaunch
    /\ lastWrite' = NoWrite
    /\ UNCHANGED <<visiblePrompts, lastResponse>>
    /\ IF sessions[waiters[w].sessionId] = NULL
       THEN /\ waiters' = [waiters EXCEPT ![w].status = "rejected"]
            /\ UNCHANGED sessionCompletionCallbacks
       ELSE /\ waiters' = [waiters EXCEPT ![w].status = "pending"]
            /\ sessionCompletionCallbacks' =
                   [sessionCompletionCallbacks EXCEPT ![waiters[w].sessionId] = w]
    /\ microtasks' = Tail(microtasks)
    /\ UNCHANGED <<sessions, currentSessionId, objs, files, stops, now, dirs>>

\* The response of launch_dev_extension once its wait is over: the duration
\* in hundredths of a second ((duration / 1000).toFixed(2)), the exit code or
\* "unknown" for null, and the text made of the result's output and errors.
launchDevExtensionResponse(result) ==
    [isError |-> FALSE,
     seconds |-> result.duration \div 10,
     exitCode |-> IF result.exitCode = "null" THEN "unknown" ELSE result.exitCode,
     sessionId |-> result.sessionId,
     output |-> result.output, errors |-> result.errors]

\* ------------------------------------------------------- write_prompt_file
\* How a call of write_prompt_file can end: the workspace directory does not
\* exist, the write of .PROMPT throws, the write of PROMPT.txt throws, or
\* both files are written.
WriteOutcomes == {"workspaceMissing", "writeFailed", "copyFailed", "ok"}

\* Mutant of PromptAfterWrite: the prompt is written under the id of the
\* current session's object.
PromptOfCurrent(fs, dir, outcome) ==
    IF outcome \in {"copyFailed", "ok"}
    THEN [fs EXCEPT ![dir] = IF currentSessionId = NULL THEN FakePrompt
                             ELSE sessions[currentSessionId]]
    ELSE fs

\* fs.writeFileSync(promptFilePath, promptContent) of write_prompt_file.
PromptAfterWrite(fs, dir, outcome) ==
    IF outcome \in {"copyFailed", "ok"} THEN [fs EXCEPT ![dir] = FakePrompt] ELSE fs

\* write_prompt_file (WritePromptFileTool.execute): creates the test
\* directory, writes .PROMPT and then PROMPT.txt with the same content; every
\* error is caught and answered with an error response.  PROMPT.txt is read
\* and removed by nothing; lastWrite says what this call wrote.
writePromptFile(dir, outcome) ==
    /\ microtasks = <<>>
    /\ lastLaunch' = NoLaunch
    /\ dirs' = IF outcome = "workspaceMissing" THEN dirs ELSE [dirs EXCEPT ![dir] = TRUE]
    /\ files' = PromptAfterWrite(files, dir, outcome)
    /\ visiblePrompts' = IF outcome = "ok"
                         THEN [visiblePrompts EXCEPT ![dir] = FakePrompt]
                         ELSE visiblePrompts
    /\ UNCHANGED lastResponse
    /\ lastWrite' = [dir |-> dir, outcome |-> outcome,
                     prompt |-> outcome \in {"copyFailed", "ok"},
                     copy |-> outcome = "ok",
                     isError |-> outcome # "ok"]
    /\ UNCHANGED <<sessions, currentSessionId, sessionCompletionCallbacks, objs,
                   waiters, stops, microtasks, now>>

\* ------------------------------------------------------- response texts
\* A text is a sequence of characters; a character is the pair of the text
\* it comes from and its place in it, so that every character of a combined
\* text can be told from every other.
Text(source, n) == [i \in 1..n |-> <<source, i>>]

\* The lengths of the chunks the logs are made of.
ChunkLengths == {1, 489, 499, 500, 989, 999, 1000, 1001}

\* The logs a session can have accumulated: up to two chunks of output, up
\* to one of errors.
OutputLogs ==
    {<<>>} \cup {<<Text("out1", a)>> : a \in ChunkLengths}
           \cup {<<Text("out1", a), Text("out2", b)>> : a, b \in ChunkLengths}
ErrorLogs == {<<>>} \cup {<<Text("err1", a)>> : a \in ChunkLengths}

\* chunks.join("\n")
RECURSIVE Join(_)
Join(chunks) ==
    IF chunks = <<>> THEN <<>>
    ELSE IF Len(chunks) = 1 THEN chunks[1]
    ELSE chunks[1] \o Text("\n", 1) \o Join(Tail(chunks))

\* resultText: the output joined, or "No output captured", followed by
\* "\n\nErrors:\n" and the errors joined when there are errors.
resultText(output, errors) ==
    (IF Len(output) > 0 THEN Join(output) ELSE Text("No output captured", 18))
    \o (IF Len(errors) > 0 THEN Text("\n\nErrors:\n", 10) \o Join(errors) ELSE <<>>)

\* "...\n(Output truncated, full logs available in the terminal)"
TruncationMarker == Text("...\n(Output truncated, full logs available in the terminal)", 59)

\* Mutant of truncatedText: a text of exactly maxLength characters is cut too.
truncatedTextEager(text) ==
    IF Len(text) >= maxLength
    THEN SubSeq(text, 1, maxLength) \o TruncationMarker
    ELSE text

\* truncatedText: resultText.substring(0, maxLength) and the marker when
\* resultText is longer than maxLength, resultText otherwise.
truncatedText(text) ==
    IF Len(text) > maxLength
    THEN SubSeq(text, 1, maxLength) \o TruncationMarker
    ELSE text

\* The formatting of a result by stop_dev_extension and by
\* launch_dev_extension, which have the same code for it: the results part of
\* the response text, made from the logs of session object o.
FormatResult(tool, o) ==
    /\ microtasks = <<>>
    /\ lastResponse' = [tool |-> tool,
                        results |-> truncatedText(resultText(objs[o].output, objs[o].errors))]
    /\ lastLaunch' = NoLaunch
    /\ lastWrite' = NoWrite
    /\ UNCHANGED <<sessions, currentSessionId, sessionCompletionCallbacks, objs, files,
                   waiters, stops, microtasks, now, dirs, visiblePrompts>>

\* A session that has ended with logs: what the tools format.
InitText ==
    /\ sessions = [id \in SessionIds |-> NULL]
    /\ currentSessionId = NULL
    /\ sessionCompletionCallbacks = [id \in SessionIds |-> NULL]
    /\ \E output \in OutputLogs, errors \in ErrorLogs :
          objs = <<[sessionId |-> 1, testDir |-> 1, startTime |-> 0,
                    output |-> output, errors |-> errors,
                    stdout |-> output, stderr |-> errors,
                    handle |-> "closed", killed |-> FALSE, signals |-> <<>>,
                    exitCode |-> "0"]>>
    /\ files = [d \in TestDirs |-> NULL]
    /\ waiters = <<>>
    /\ stops = <<>>
    /\ microtasks = <<>>
    /\ now = 0
    /\ dirs = [d \in TestDirs |-> TRUE]
    /\ lastLaunch = NoLaunch
    /\ lastWrite = NoWrite
    /\ visiblePrompts = [d \in TestDirs |-> NULL]
    /\ lastResponse = NoResponse

NextText ==
    \/ \E o \in DOMAIN objs : FormatResult("stop_dev_extension", o)
    \/ \E o \in DOMAIN objs : FormatResult("launch_dev_extension", o)

SpecText == InitText /\ [][NextText]_vars

\* ------------------------------------------------------------ stopping
\* stopCurrentSession from the session found up to its await: the duration
\* is computed, SIGTERM is sent, the 5 s timer is armed and the once("exit")
\* listener is registered.
BeginStop(kind, arg, previous, o) ==
    /\ stops' = Append(stops, [kind |-> kind, arg |-> arg, session |-> o,
                               previous |-> previous,
                               duration |-> now - objs[o].startTime,
                               exitCode |-> "null",
                               deadline |-> now + GracePeriodMs,
                               phase |-> "waiting", returned |-> <<>>])
    /\ objs' = [objs EXCEPT ![o] = Kill(@, "SIGTERM")]

\* A call that returns undefined at once.
ReturnUndefined(kind, arg) ==
    /\ stops' = Append(stops, [kind |-> kind, arg |-> arg, session |-> NULL,
                               previous |-> NULL, duration |-> 0,
                               exitCode |-> "null", deadline |-> 0,
                               phase |-> "done", returned |-> <<>>])
    /\ UNCHANGED objs

\* stopCurrentSession(), called by stop_dev_extension without a sessionId.
stopCurrentSession ==
    /\ microtasks = <<>>
    /\ lastLaunch' = NoLaunch
    /\ lastWrite' = NoWrite
    /\ UNCHANGED <<visiblePrompts, lastResponse>>
    /\ UNCHANGED dirs
    /\ Len(stops) < MaxStops
    /\ IF getCurrentSession = NULL
       THEN ReturnUndefined("current", NULL)
       ELSE BeginStop("current", NULL, NULL, getCurrentSession)
    /\ UNCHANGED <<sessions, currentSessionId, sessionCompletionCallbacks, files,
                   waiters, microtasks, now>>

\* Mutant of stopSessionById: no check that the session exists, so an unknown
\* id is made current before stopCurrentSession() finds nothing to stop.
stopSessionByIdUnchecked(sessionId) ==
    /\ microtasks = <<>>
    /\ lastLaunch' = NoLaunch
    /\ lastWrite' = NoWrite
    /\ UNCHANGED <<visiblePrompts, lastResponse>>
    /\ UNCHANGED dirs
    /\ Len(stops) < MaxStops
    /\ IF sessions[sessionId] = NULL
       THEN /\ ReturnUndefined("byId", sessionId)
            /\ currentSessionId' =
                   IF currentSessionId # NULL /\ currentSessionId # sessionId
                   THEN currentSessionId ELSE sessionId
       ELSE /\ currentSessionId' = sessionId
            /\ BeginStop("byId", sessionId, currentSessionId, sessions[sessionId])
    /\ UNCHANGED <<sessions, sessionCompletionCallbacks, files, waiters,
                   microtasks, now>>

\* Mutant of stopSessionById: one stop at a time, a call is not taken while
\* another one is suspended.
stopSessionByIdSerialized(sessionId) ==
    /\ microtasks = <<>>
    /\ lastLaunch' = NoLaunch
    /\ lastWrite' = NoWrite
    /\ UNCHANGED <<visiblePrompts, lastResponse>>
    /\ UNCHANGED dirs
    /\ Len(stops) < MaxStops
    /\ \A c \in DOMAIN stops : stops[c].phase = "done"
    /\ IF sessions[sessionId] = NULL
       THEN /\ ReturnUndefined("byId", sessionId)
            /\ UNCHANGED currentSessionId
       ELSE /\ currentSessionId' = sessionId
            /\ BeginStop("byId", sessionId, currentSessionId, sessions[sessionId])
    /\ UNCHANGED <<sessions, sessionCompletionCallbacks, files, waiters,
                   microtasks, now>>

\* stopSessionById(sessionId) up to its await of stopCurrentSession().
stopSessionById(sessionId) ==
    /\ microtasks = <<>>
    /\ lastLaunch' = NoLaunch
    /\ lastWrite' = NoWrite
    /\ UNCHANGED <<visiblePrompts, lastResponse>>
    /\ UNCHANGED dirs
    /\ Len(stops) < MaxStops
    /\ IF sessions[sessionId] = NULL
       THEN /\ ReturnUndefined("byId", sessionId)
            /\ UNCHANGED currentSessionId
       ELSE /\ currentSessionId' = sessionId
            /\ BeginStop("byId", sessionId, currentSessionId, sessions[sessionId])
    /\ UNCHANGED <<sessions, sessionCompletionCallbacks, files, waiters,
                   microtasks, now>>

\* Mutant of CallbacksAfterSignal: the signalled callback is left in the map.
CallbacksKept(cbs, sessionId) == cbs

\* The callbacks map after a callback has been signalled.
CallbacksAfterSignal(cbs, sessionId) == MapDelete(cbs, sessionId)

\* Mutant of GraceTimeout: the timer sends SIGKILL and does not resolve, so
\* that only the 'exit' event ends the wait.
GraceTimeoutKillOnly(c) ==
    /\ microtasks = <<>>
    /\ lastLaunch' = NoLaunch
    /\ lastWrite' = NoWrite
    /\ UNCHANGED <<visiblePrompts, lastResponse>>
    /\ UNCHANGED dirs
    /\ stops[c].phase = "waiting"
    /\ now >= stops[c].deadline
    /\ LET o == stops[c].session IN
        objs' = [objs EXCEPT ![o] = IF @.killed = FALSE THEN Kill(@, "SIGKILL") ELSE @]
    /\ UNCHANGED <<sessions, currentSessionId, sessionCompletionCallbacks, files,
                   waiters, stops, microtasks, now>>

\* The timer of call c fires: SIGKILL if `killed` is still false, resolve().
GraceTimeout(c) ==
    /\ microtasks = <<>>
    /\ lastLaunch' = NoLaunch
    /\ lastWrite' = NoWrite
    /\ UNCHANGED <<visiblePrompts, lastResponse>>
    /\ UNCHANGED dirs
    /\ stops[c].phase = "waiting"
    /\ now >= stops[c].deadline
    /\ LET o == stops[c].session IN
        objs' = [objs EXCEPT ![o] = IF @.killed = FALSE THEN Kill(@, "SIGKILL") ELSE @]
    /\ stops' = [stops EXCEPT ![c].phase = "inner"]
    /\ microtasks' = Append(microtasks, c)
    /\ UNCHANGED <<sessions, currentSessionId, sessionCompletionCallbacks, files,
                   waiters, now>>

\* Mutant of Caught: an error of unlinkSync ends stopCurrentSession.
Uncaught(unlinkOk) == unlinkOk

\* The try/catch around the removal of the prompt file: stopCurrentSession
\* goes on whether unlinkSync threw or not.
Caught(unlinkOk) == TRUE

\* stopCurrentSession after its await: the prompt file is removed, the result
\* is built, the callback signalled, the session removed.
ResumeStopCurrentSession(c, unlinkOk) ==
    /\ microtasks # <<>>
    /\ lastLaunch' = NoLaunch
    /\ lastWrite' = NoWrite
    /\ UNCHANGED <<visiblePrompts, lastResponse>>
    /\ UNCHANGED dirs
    /\ Head(microtasks) = c
    /\ stops[c].phase = "inner"
    /\ CanFail(files, objs[stops[c].session].testDir, unlinkOk)
    /\ LET call == stops[c]
           o == call.session
           sid == objs[o].sessionId
           result == StopResult(o, call.duration, call.exitCode)
           callback == sessionCompletionCallbacks[sid]
           byId == call.kind = "byId"
       IN
        /\ files' = Unlink(files, objs[o].testDir, unlinkOk)
        /\ IF Caught(unlinkOk)
           THEN /\ IF callback # NULL
                   THEN /\ waiters' = Resolve(waiters, callback, result)
                        /\ sessionCompletionCallbacks' =
                               CallbacksAfterSignal(sessionCompletionCallbacks, sid)
                   ELSE UNCHANGED <<waiters, sessionCompletionCallbacks>>
                /\ sessions' = MapDelete(sessions, sid)
                /\ currentSessionId' =
                       IF currentSessionId = sid THEN NULL ELSE currentSessionId
                /\ stops' = [stops EXCEPT ![c].returned = <<result>>,
                                          ![c].phase = IF byId THEN "outer" ELSE "done"]
           ELSE /\ stops' = [stops EXCEPT ![c].phase = IF byId THEN "outer" ELSE "done"]
                /\ UNCHANGED <<waiters, sessionCompletionCallbacks, sessions,
                               currentSessionId>>
        /\ microtasks' = Tail(microtasks) \o (IF byId THEN <<c>> ELSE <<>>)
    /\ UNCHANGED <<objs, now>>

\* The current session id stopSessionById leaves behind.
RestoreCurrent(previous, sessionId, current) ==
    IF previous # NULL /\ previous # sessionId THEN previous ELSE current

\* stopSessionById after its await: the previous current session is restored.
ResumeStopSessionById(c) ==
    /\ microtasks # <<>>
    /\ lastLaunch' = NoLaunch
    /\ lastWrite' = NoWrite
    /\ UNCHANGED <<visiblePrompts, lastResponse>>
    /\ UNCHANGED dirs
    /\ Head(microtasks) = c
    /\ stops[c].phase = "outer"
    /\ currentSessionId' = RestoreCurrent(stops[c].previous, stops[c].arg, currentSessionId)
    /\ stops' = [stops EXCEPT ![c].phase = "done"]
    /\ microtasks' = Tail(microtasks)
    /\ UNCHANGED <<sessions, sessionCompletionCallbacks, objs, files, waiters, now>>

\* The response of stop_dev_extension (StopDevExtensionTool.execute), which
\* calls stopSessionById(sessionId) when it is given a sessionId and
\* getCurrentSession() then stopCurrentSession() when it is given none: kind
\* is which of the two it called, found whether a session was found,
\* returned what the call returned.
stopDevExtensionResponse(kind, found, returned) ==
    IF returned # <<>>
    THEN [isError |-> FALSE, text |-> "VSCode extension test stopped"]
    ELSE IF kind = "byId"
         THEN [isError |-> TRUE,
               text |-> "No VSCode extension test found with session ID. Nothing to stop."]
         ELSE IF found
              THEN [isError |-> TRUE,
                    text |-> "Failed to stop VSCode extension test. No result returned."]
              ELSE [isError |-> FALSE,
                    text |-> "No active VSCode extension test found. Nothing to stop."]

\* ------------------------------------------------------------ process exit
\* Whether handleExternalProcessTermination acts: `if (session && callback)`.
ExternalGuard(session, callback) == session # NULL /\ callback # NULL

\* Mutant of ExternalResult: the exit code of the event is not passed on.
ExternalResultNoCode(session, exitCode) ==
    StopResult(session, now - objs[session].startTime, "null")

\* The result handleExternalProcessTermination builds.
ExternalResult(session, exitCode) ==
    StopResult(session, now - objs[session].startTime, exitCode)

\* handleExternalProcessTermination(sessionId, exitCode).
handleExternalProcessTermination(sessionId, exitCode, unlinkOk) ==
    LET session == sessions[sessionId]
        callback == sessionCompletionCallbacks[sessionId]
    IN IF ExternalGuard(session, callback)
       THEN LET result == ExternalResult(session, exitCode) IN
            /\ waiters' = Resolve(waiters, callback, result)
            /\ sessionCompletionCallbacks' =
                   CallbacksAfterSignal(sessionCompletionCallbacks, sessionId)
            /\ sessions' = MapDelete(sessions, sessionId)
            /\ currentSessionId' =
                   IF currentSessionId = sessionId THEN NULL ELSE currentSessionId
            /\ files' = Unlink(files, objs[session].testDir, unlinkOk)
       ELSE UNCHANGED <<waiters, sessionCompletionCallbacks, sessions,
                        currentSessionId, files>>

\* The codes 'exit' events have carried so far.
CodesSeen == {objs[o].exitCode : o \in DOMAIN objs} \ {"null"}

\* The code of the next 'exit' event.  No handler looks into the code, so
\* codes not seen before are interchangeable: the event carries a code seen
\* before or the first one not seen.
NextExitCodes ==
    CodesSeen \cup {code \in ExitCodes \ CodesSeen :
                        \A other \in ExitCodes \ CodesSeen : Len(code) <= Len(other)}

\* The 'exit' event of session object o's process, with its listeners in the
\* order they were registered: the one of launchExtension, then the
\* once("exit") listeners of the stop calls waiting on this process.
ProcessExit(o, code, unlinkOk) ==
    /\ microtasks = <<>>
    /\ lastLaunch' = NoLaunch
    /\ lastWrite' = NoWrite
    /\ UNCHANGED <<visiblePrompts, lastResponse>>
    /\ UNCHANGED dirs
    /\ objs[o].handle = "open"
    /\ unlinkOk \/ ( /\ files[objs[o].testDir] # NULL
                     /\ ExternalGuard(sessions[objs[o].sessionId],
                                      sessionCompletionCallbacks[objs[o].sessionId]) )
    /\ objs' = [objs EXCEPT ![o].handle = "closed", ![o].exitCode = code]
    /\ handleExternalProcessTermination(objs[o].sessionId, code, unlinkOk)
    /\ LET listening(c) == stops[c].phase = "waiting" /\ stops[c].session = o IN
        /\ stops' = [c \in DOMAIN stops |->
                        IF listening(c)
                        THEN [stops[c] EXCEPT !.exitCode = code, !.phase = "inner"]
                        ELSE stops[c]]
        /\ microtasks' = SelectSeq(Indices(stops), listening)
    /\ UNCHANGED now

\* ----------------------------------------------------------------- cleanup
\* Mutant of CleanupKill: the graceful signal.
CleanupTerminate(obj) == Kill(obj, "SIGTERM")

\* session.process.kill("SIGKILL") in cleanupAllSessions.
CleanupKill(obj) == Kill(obj, "SIGKILL")

\* cleanupAllSessions(): for every session in the map, SIGKILL and the removal
\* of its prompt file, inside one try/catch per session; then the map is
\* cleared.  failing: the sessions whose unlinkSync throws.  A file is gone
\* when the unlinkSync of some session of its directory succeeded.
cleanupAllSessions(failing) ==
    /\ microtasks = <<>>
    /\ lastLaunch' = NoLaunch
    /\ lastWrite' = NoWrite
    /\ UNCHANGED <<visiblePrompts, lastResponse>>
    /\ UNCHANGED dirs
    /\ \A o \in failing : files[objs[o].testDir] # NULL
    /\ objs' = [o \in DOMAIN objs |->
                   IF o \in getAllSessions THEN CleanupKill(objs[o]) ELSE objs[o]]
    /\ files' = [d \in TestDirs |->
                    IF \E o \in getAllSessions \ failing : objs[o].testDir = d
                    THEN NULL ELSE files[d]]
    /\ sessions' = [id \in SessionIds |-> NULL]
    /\ currentSessionId' = NULL
    /\ UNCHANGED <<sessionCompletionCallbacks, waiters, stops, microtasks, now>>

\* Time passes.  Only differences of time are read, so the clock starts
\* with the first launch.
Tick ==
    /\ microtasks = <<>>
    /\ lastLaunch' = NoLaunch
    /\ lastWrite' = NoWrite
    /\ UNCHANGED <<visiblePrompts, lastResponse>>
    /\ UNCHANGED dirs
    /\ objs # <<>>
    /\ now < MaxTicks * TickMs
    /\ now' = now + TickMs
    /\ UNCHANGED <<sessions, currentSessionId, sessionCompletionCallbacks, objs,
                   files, waiters, stops, microtasks>>

\* Time passes beyond the horizon of Tick while the timer of a suspended stop
\* call is armed: an armed timer sees its delay elapse.
TickToDeadline ==
    /\ microtasks = <<>>
    /\ lastLaunch' = NoLaunch
    /\ lastWrite' = NoWrite
    /\ UNCHANGED <<visiblePrompts, lastResponse>>
    /\ UNCHANGED dirs
    /\ now >= MaxTicks * TickMs
    /\ \E c \in DOMAIN stops : stops[c].phase = "waiting" /\ now < stops[c].deadline
    /\ now' = now + TickMs
    /\ UNCHANGED <<sessions, currentSessionId, sessionCompletionCallbacks, objs,
                   files, waiters, stops, microtasks>>

Next ==
    \/ \E id \in generateSessionId, d \in TestDirs, outcome \in LaunchOutcomes :
          launchExtension(id, d, outcome)
    \/ \E id \in generateSessionId, d \in TestDirs, outcome \in LaunchOutcomes :
          launchDevExtension(id, d, outcome)
    \/ \E id \in SessionIds : waitForSessionCompletion(id)
    \/ stopCurrentSession
    \/ \E id \in SessionIds : stopSessionById(id)
    \/ \E c \in DOMAIN stops : GraceTimeout(c)
    \/ \E c \in DOMAIN stops, unlinkOk \in BOOLEAN : ResumeStopCurrentSession(c, unlinkOk)
    \/ \E c \in DOMAIN stops : ResumeStopSessionById(c)
    \/ \E o \in DOMAIN objs, code \in NextExitCodes, unlinkOk \in BOOLEAN :
          ProcessExit(o, code, unlinkOk)
    \/ \E failing \in SUBSET getAllSessions : cleanupAllSessions(failing)
    \/ Tick

Spec == Init /\ [][Next]_vars

\* The server as its tools drive it, write_prompt_file among them: sessions
\* are launched by launch_dev_extension or by launchExtension, stopped by
\* stop_dev_extension without a session id, and end by themselves.
NextPrompt ==
    \/ \E d \in TestDirs, outcome \in WriteOutcomes : writePromptFile(d, outcome)
    \/ \E id \in generateSessionId, d \in TestDirs, outcome \in LaunchOutcomes :
          launchExtension(id, d, outcome)
    \/ \E id \in generateSessionId, d \in TestDirs, outcome \in LaunchOutcomes :
          launchDevExtension(id, d, outcome)
    \/ stopCurrentSession
    \/ \E c \in DOMAIN stops : GraceTimeout(c)
    \/ \E c \in DOMAIN stops, unlinkOk \in BOOLEAN : ResumeStopCurrentSession(c, unlinkOk)
    \/ \E o \in DOMAIN objs, code \in NextExitCodes, unlinkOk \in BOOLEAN :
          ProcessExit(o, code, unlinkOk)
    \/ \E failing \in SUBSET getAllSessions : cleanupAllSessions(failing)
    \/ Tick

SpecPrompt == Init /\ [][NextPrompt]_vars

\* The manager with launches whose ids may repeat.
NextCollide ==
    \/ \E id \in generateSessionIdUnchecked, d \in TestDirs, outcome \in LaunchOutcomes :
          launchExtension(id, d, outcome)
    \/ stopCurrentSession
    \/ \E id \in SessionIds : stopSessionById(id)
    \/ \E c \in DOMAIN stops : GraceTimeout(c)
    \/ \E c \in DOMAIN stops, unlinkOk \in BOOLEAN : ResumeStopCurrentSession(c, unlinkOk)
    \/ \E c \in DOMAIN stops : ResumeStopSessionById(c)
    \/ \E o \in DOMAIN objs, code \in NextExitCodes, unlinkOk \in BOOLEAN :
          ProcessExit(o, code, unlinkOk)
    \/ \E failing \in SUBSET getAllSessions : cleanupAllSessions(failing)
    \/ Tick

SpecCollide == Init /\ [][NextCollide]_vars

\* The stops under the scheduling of Node: the continuations queued as
\* microtasks run, time passes, and a timer whose delay has elapsed fires.
\* Nothing makes a process exit.
NextLive ==
    \/ \E id \in generateSessionId, d \in TestDirs, outcome \in LaunchOutcomes :
          launchExtension(id, d, outcome)
    \/ stopCurrentSession
    \/ \E id \in SessionIds : stopSessionById(id)
    \/ \E c \in DOMAIN stops : GraceTimeout(c)
    \/ \E c \in DOMAIN stops, unlinkOk \in BOOLEAN : ResumeStopCurrentSession(c, unlinkOk)
    \/ \E c \in DOMAIN stops : ResumeStopSessionById(c)
    \/ \E o \in DOMAIN objs, code \in NextExitCodes, unlinkOk \in BOOLEAN :
          ProcessExit(o, code, unlinkOk)
    \/ Tick
    \/ TickToDeadline

SpecLive ==
    /\ Init
    /\ [][NextLive]_vars
    /\ WF_vars(Tick \/ TickToDeadline)
    /\ WF_vars(\E c \in DOMAIN stops : GraceTimeout(c))
    /\ WF_vars(\E c \in DOMAIN stops, unlinkOk \in BOOLEAN : ResumeStopCurrentSession(c, unlinkOk))
    /\ WF_vars(\E c \in DOMAIN stops : ResumeStopSessionById(c))

\* The manager with repeated calls of waitForSessionCompletion for a session.
NextWaiters ==
    \/ \E id \in generateSessionId, d \in TestDirs, outcome \in LaunchOutcomes :
          launchExtension(id, d, outcome)
    \/ \E id \in SessionIds : waitForSessionCompletion(id)
    \/ \E id \in SessionIds : waitForSessionCompletionRepeated(id)
    \/ stopCurrentSession
    \/ \E id \in SessionIds : stopSessionById(id)
    \/ \E c \in DOMAIN stops : GraceTimeout(c)
    \/ \E c \in DOMAIN stops, unlinkOk \in BOOLEAN : ResumeStopCurrentSession(c, unlinkOk)
    \/ \E c \in DOMAIN stops : ResumeStopSessionById(c)
    \/ \E o \in DOMAIN objs, code \in NextExitCodes, unlinkOk \in BOOLEAN :
          ProcessExit(o, code, unlinkOk)
    \/ Tick

SpecWaiters == Init /\ [][NextWaiters]_vars

\* The manager with launch_dev_extension taken step by step.
NextSteps ==
    \/ \E id \in generateSessionId, d \in TestDirs, outcome \in LaunchOutcomes :
          launchExtension(id, d, outcome)
    \/ \E id \in generateSessionId, d \in TestDirs, outcome \in LaunchOutcomes :
          launchDevExtensionCall(id, d, outcome)
    \/ \E w \in DOMAIN waiters : ResumeLaunchDevExtension(w)
    \/ stopCurrentSession
    \/ \E id \in SessionIds : stopSessionById(id)
    \/ \E c \in DOMAIN stops : GraceTimeout(c)
    \/ \E c \in DOMAIN stops, unlinkOk \in BOOLEAN : ResumeStopCurrentSession(c, unlinkOk)
    \/ \E c \in DOMAIN stops : ResumeStopSessionById(c)
    \/ \E o \in DOMAIN objs, code \in NextExitCodes, unlinkOk \in BOOLEAN :
          ProcessExit(o, code, unlinkOk)
    \/ Tick

SpecSteps == Init /\ [][NextSteps]_vars

\* The stream listeners only append to a session's output and errors, which
\* no other handler reads: Spec leaves them out.  SpecStreams has them, with
\* the launches, the wait of launch_dev_extension, the stops of the current
\* session, the exits and the timers.
NextStreams ==
    \/ \E id \in generateSessionId, d \in TestDirs, outcome \in LaunchOutcomes :
          launchExtension(id, d, outcome)
    \/ \E id \in generateSessionId, d \in TestDirs, outcome \in LaunchOutcomes :
          launchDevExtension(id, d, outcome)
    \/ \E o \in DOMAIN objs, ch \in Chunks : StdoutData(o, ch)
    \/ \E o \in DOMAIN objs, ch \in Chunks : StderrData(o, ch)
    \/ stopCurrentSession
    \/ \E c \in DOMAIN stops : GraceTimeout(c)
    \/ \E c \in DOMAIN stops, unlinkOk \in BOOLEAN : ResumeStopCurrentSession(c, unlinkOk)
    \/ \E o \in DOMAIN objs, code \in NextExitCodes, unlinkOk \in BOOLEAN :
          ProcessExit(o, code, unlinkOk)
    \/ Tick

SpecStreams == Init /\ [][NextStreams]_vars

\* ================================================================ claims
\* The waiter registered for session id, the calls on session object o.
Registered(w) == sessionCompletionCallbacks[waiters[w].sessionId] = w
CallsOn(o) == {c \in DOMAIN stops : stops[c].session = o}
InFlight(c) == stops[c].phase # "done"

\* C1: a waiter of waitForSessionCompletion is resolved with exactly one
\* result, of its own session, and never a second time: while its callback
\* is registered it has received nothing, and once the callback has been
\* taken out (by a stop, by the exit event or by the grace timeout) it has
\* received exactly one result.
C1_ResolvedExactlyOnce ==
    \A w \in DOMAIN waiters :
        LET d == waiters[w].delivered IN
        /\ Len(d) <= 1
        /\ \A i \in DOMAIN d : d[i].sessionId = waiters[w].sessionId
        /\ waiters[w].status = "rejected" => d = <<>>
        /\ waiters[w].status = "pending" =>
              IF Registered(w) THEN d = <<>>
              ELSE \/ Len(d) = 1
                   \/ \E w2 \in DOMAIN waiters :
                         w2 > w /\ waiters[w2].sessionId = waiters[w].sessionId
                                /\ waiters[w2].status = "pending"

\* C1 witness: a waiter has its result and a stop call on its session raced
\* the process's own exit event.
C1_Witness ==
    \E w \in DOMAIN waiters, c \in DOMAIN stops :
        /\ Len(waiters[w].delivered) = 1
        /\ stops[c].session # NULL
        /\ objs[stops[c].session].sessionId = waiters[w].sessionId
        /\ stops[c].phase = "done"
        /\ objs[stops[c].session].handle = "closed"

\* C2: the result stopSessionById returns to its caller and the result
\* delivered to the waiter of the same session are identical.
C2_SameResultForStopperAndWaiter ==
    \A c \in DOMAIN stops, w \in DOMAIN waiters :
        (/\ stops[c].kind = "byId"
         /\ stops[c].returned # <<>>
         /\ waiters[w].delivered # <<>>
         /\ waiters[w].sessionId = stops[c].returned[1].sessionId)
        => waiters[w].delivered[1] = stops[c].returned[1]

\* C3: once stopSessionById / stopCurrentSession has returned the result of
\* session id, id is not in the sessions map and is not the current session
\* id, in every later state.
C3_StoppedSessionGone ==
    \A c \in DOMAIN stops :
        (stops[c].phase = "done" /\ stops[c].returned # <<>>)
        => /\ sessions[stops[c].returned[1].sessionId] = NULL
           /\ currentSessionId # stops[c].returned[1].sessionId

\* C4: a stop first sends SIGTERM; when its grace period elapses with the
\* process still running it sends SIGKILL, and SIGKILL is sent by a stop
\* only then.
C4_GracefulThenForceful ==
    [][\A c \in DOMAIN stops' :
          LET o == stops'[c].session IN
          o # NULL =>
            /\ (c \notin DOMAIN stops /\ objs[o].handle = "open")
                  => objs'[o].signals = Append(objs[o].signals, "SIGTERM")
            /\ (c \in DOMAIN stops /\ stops[c].phase = "waiting"
                  /\ stops'[c].phase = "inner" /\ objs'[o].handle = "open")
                  => /\ now >= stops[c].deadline
                     /\ objs'[o].signals = Append(objs[o].signals, "SIGKILL")
            /\ (stops' # stops /\ objs'[o].signals # objs[o].signals
                  /\ objs'[o].signals[Len(objs'[o].signals)] = "SIGKILL")
                  => \E t \in CallsOn(o) :
                        stops[t].phase = "waiting" /\ now >= stops[t].deadline
      ]_vars

\* C5: stopSessionById(id) with id not in the sessions map returns undefined
\* and changes nothing: no signal, no prompt file, no session, no current
\* session id, no callback.
C5_StopUnknownIdIsNoOp ==
    [][(/\ Len(stops') = Len(stops) + 1
        /\ stops'[Len(stops')].kind = "byId"
        /\ sessions[stops'[Len(stops')].arg] = NULL)
       => /\ stops'[Len(stops')].phase = "done"
          /\ stops'[Len(stops')].returned = <<>>
          /\ UNCHANGED <<sessions, currentSessionId, sessionCompletionCallbacks,
                         objs, files, waiters, microtasks>>
      ]_vars

\* C5 witness: stopSessionById has returned undefined for an id that was
\* never launched and for the id of a session already completed.
C5_Witness ==
    \E c1 \in DOMAIN stops, c2 \in DOMAIN stops :
        /\ stops[c1].kind = "byId" /\ stops[c1].session = NULL
        /\ stops[c1].phase = "done" /\ stops[c1].arg \notin Issued
        /\ stops[c2].kind = "byId" /\ stops[c2].session = NULL
        /\ stops[c2].phase = "done" /\ stops[c2].arg \in Issued

\* The session the current session id names, if it names one.
CurrentTarget ==
    IF currentSessionId = NULL THEN NULL ELSE sessions[currentSessionId]

\* C6: stopCurrentSession() returns undefined and changes nothing when no
\* session is current; otherwise it signals exactly the current session and,
\* when it returns, returns that session's result with the session removed.
C6_StopCurrent ==
    /\ [][(/\ Len(stops') = Len(stops) + 1
           /\ stops'[Len(stops')].kind = "current")
          => IF CurrentTarget = NULL
             THEN /\ stops'[Len(stops')].phase = "done"
                  /\ stops'[Len(stops')].returned = <<>>
                  /\ UNCHANGED <<sessions, currentSessionId,
                                 sessionCompletionCallbacks, objs, files,
                                 waiters, microtasks>>
             ELSE /\ stops'[Len(stops')].session = CurrentTarget
                  /\ stops'[Len(stops')].phase = "waiting"
                  /\ objs'[CurrentTarget].signals =
                         Append(objs[CurrentTarget].signals, "SIGTERM")
                     \/ objs[CurrentTarget].handle # "open"
                  /\ \A o \in DOMAIN objs : o # CurrentTarget => objs'[o] = objs[o]
         ]_vars
    /\ [](\A c \in DOMAIN stops :
            (stops[c].kind = "current" /\ stops[c].phase = "done"
                /\ stops[c].session # NULL)
            => /\ Len(stops[c].returned) = 1
               /\ stops[c].returned[1].sessionId = objs[stops[c].session].sessionId
               /\ sessions[objs[stops[c].session].sessionId] = NULL)

\* C6 witness: one stopCurrentSession() returned undefined, another returned
\* the result of the session that was current, while another session lives.
C6_Witness ==
    \E c1 \in DOMAIN stops, c2 \in DOMAIN stops :
        /\ stops[c1].kind = "current" /\ stops[c1].phase = "done"
        /\ stops[c1].session = NULL
        /\ stops[c2].kind = "current" /\ stops[c2].phase = "done"
        /\ stops[c2].session # NULL

\* C7: when a process exits on its own with code c, before any stop call,
\* while a waiter is registered for its session, the exit event resolves the
\* waiter with exitCode c and in the same step removes the session from the
\* map and clears the current session id if it named that session.
C7_ExternalExitResolvesWaiter ==
    [][\A o \in DOMAIN objs :
          LET sid == objs[o].sessionId
              w == sessionCompletionCallbacks[sid]
          IN (/\ objs[o].handle = "open" /\ objs'[o].handle = "closed"
              /\ sessions[sid] = o
              /\ w # NULL
              /\ CallsOn(o) = {})
             => /\ Len(waiters'[w].delivered) = 1
                /\ waiters'[w].delivered[1].exitCode = objs'[o].exitCode
                /\ waiters'[w].delivered[1].sessionId = sid
                /\ sessions'[sid] = NULL
                /\ sessionCompletionCallbacks'[sid] = NULL
                /\ currentSessionId = sid => currentSessionId' = NULL
      ]_vars

\* C7 witness: a waiter was resolved with exit code 15 by the exit event of a
\* process no stop call ever touched.
C7_Witness ==
    \E w \in DOMAIN waiters, o \in DOMAIN objs :
        /\ Len(waiters[w].delivered) = 1
        /\ waiters[w].delivered[1].output = o
        /\ waiters[w].delivered[1].exitCode = "15"
        /\ CallsOn(o) = {}
        /\ objs[o].signals = <<>>

\* C8: every session id in the sessions map has a process whose exit has not
\* been observed.
C8_NoExitedSessionInRegistry ==
    \A id \in SessionIds :
        sessions[id] # NULL => objs[sessions[id]].handle # "closed"

\* C9: removal and publication are one step: no session is in the map after
\* its result was delivered to a waiter, and no session has left the map
\* without a result having been produced for it.
C9_RemovalWithResult ==
    /\ \A w \in DOMAIN waiters :
          waiters[w].delivered # <<>> => sessions[waiters[w].sessionId] = NULL
    /\ \A o \in DOMAIN objs :
          sessions[objs[o].sessionId] = NULL
          => \/ \E c \in CallsOn(o) : stops[c].returned # <<>>
             \/ \E w \in DOMAIN waiters :
                   /\ waiters[w].delivered # <<>>
                   /\ waiters[w].delivered[1].output = o

\* C10: a waiter accepted on a session in the map gets the session's result
\* whether it subscribed before or after the terminating event: while it
\* waits on a session in the map whose process was started, a producer is
\* still to come (the process has not exited yet, or a stop call on the
\* session is in flight).
C10_LateSubscriberServed ==
    \A w \in DOMAIN waiters :
        LET o == sessions[waiters[w].sessionId] IN
        (waiters[w].status = "pending" /\ Registered(w) /\ o # NULL
            /\ objs[o].handle # "failed")
        => \/ objs[o].handle = "open"
           \/ \E c \in CallsOn(o) : InFlight(c)

\* C11: waitForSessionCompletion(id) for an id that is not in the sessions
\* map is rejected (session not found), stores no callback and leaves the map
\* and the current session id as they were.
C11_WaitUnknownIdRejected ==
    [][\A id \in SessionIds :
          (/\ Len(waiters') = Len(waiters) + 1
           /\ waiters'[Len(waiters')].sessionId = id
           /\ ~waiters'[Len(waiters')].tool
           /\ sessions[id] = NULL)
          => /\ waiters'[Len(waiters')].status = "rejected"
             /\ waiters'[Len(waiters')].delivered = <<>>
             /\ UNCHANGED <<sessionCompletionCallbacks, sessions, currentSessionId>>
      ]_vars

\* C11 witness: a wait for the id of a session that has been launched and
\* then removed was rejected, while another session is current.
C11_Witness ==
    \E w \in DOMAIN waiters :
        /\ waiters[w].status = "rejected"
        /\ waiters[w].sessionId \in Issued
        /\ sessions[waiters[w].sessionId] = NULL
        /\ currentSessionId # NULL
        /\ sessions[currentSessionId] # NULL

\* The session object o has had its terminal transition: a stop call on it
\* has returned its result or a waiter has been given its result.
Finalized(o) ==
    \/ \E c \in CallsOn(o) : stops[c].returned # <<>>
    \/ \E w \in DOMAIN waiters :
          \E i \in DOMAIN waiters[w].delivered : waiters[w].delivered[i].output = o

\* C12: of a stop call and the exit event on one session, the one that comes
\* second does nothing more: a stop call resuming, or an exit event arriving,
\* after the session's terminal transition signals no callback, leaves the
\* sessions map and the current session id alone and removes no prompt file.
C12_SecondTriggerDoesNothing ==
    [][\A o \in DOMAIN objs :
          (/\ Finalized(o)
           /\ \/ \E c \in CallsOn(o) :
                    stops[c].phase = "inner" /\ stops'[c].phase # "inner"
              \/ objs[o].handle = "open" /\ objs'[o].handle = "closed")
          => UNCHANGED <<waiters, sessionCompletionCallbacks, sessions,
                         currentSessionId, files>>
      ]_vars

C14_CurrentIsNewest ==
    currentSessionId # NULL =>
        /\ objs # <<>>
        /\ currentSessionId = objs[Len(objs)].sessionId

\* C15: a launch whose extension path does not exist throws an error that
\* names that path; no process is spawned, no prompt file written, no
\* session stored, and the current session id is unchanged.
C15_MissingExtensionPath ==
    [][lastLaunch'.outcome = "pathMissing"
          => /\ lastLaunch'.error.message = "Extension path does not exist"
             /\ lastLaunch'.error.names = "extensionPath"
             /\ lastLaunch'.session = NULL
             /\ UNCHANGED <<objs, files, dirs, sessions, currentSessionId>>
      ]_vars

\* C15 witness: a launch has just failed on its extension path while an
\* earlier session is current and its prompt file exists.
C15_Witness ==
    /\ lastLaunch.outcome = "pathMissing"
    /\ currentSessionId # NULL
    /\ sessions[currentSessionId] # NULL
    /\ files[lastLaunch.dir] # NULL

\* C16 as stated: a launch whose working directory does not exist throws an
\* error that names the directory, stores no session and spawns no process.
C16_MissingDirRejected ==
    [][(lastLaunch'.outcome \notin {"none", "pathMissing"} /\ ~dirs[lastLaunch'.dir])
          => /\ lastLaunch'.error.names = "dir"
             /\ lastLaunch'.session = NULL
             /\ UNCHANGED <<objs, sessions, currentSessionId>>
      ]_vars

\* C16: a launch whose working directory does not exist (its extension path
\* existing) creates the directory and goes on: when nothing else fails the
\* session is stored and made current with its process started.  The launch
\* throws on the directory only when the directory cannot be created, and
\* then stores no session and spawns no process.
C16_MissingDirCreated ==
    [][(lastLaunch'.outcome \notin {"none", "pathMissing"} /\ ~dirs[lastLaunch'.dir])
          => /\ lastLaunch'.mkdir
             /\ IF lastLaunch'.outcome = "mkdirFailed"
                THEN /\ lastLaunch'.error.names = "dir"
                     /\ lastLaunch'.session = NULL
                     /\ UNCHANGED <<objs, sessions, currentSessionId, dirs, files>>
                ELSE /\ dirs'[lastLaunch'.dir]
                     /\ lastLaunch'.error.names # "dir"
                     /\ lastLaunch'.outcome = "ok" =>
                           /\ lastLaunch'.session = Len(objs) + 1
                           /\ objs'[lastLaunch'.session].handle = "open"
                           /\ currentSessionId' = objs'[lastLaunch'.session].sessionId
      ]_vars

\* C16 witness: a launch into a missing directory has just returned an id;
\* the directory exists now and the session is in the map.
C16_Witness ==
    /\ lastLaunch.outcome = "ok"
    /\ lastLaunch.mkdir
    /\ dirs[lastLaunch.dir]
    /\ sessions[objs[lastLaunch.session].sessionId] = lastLaunch.session

\* C17: when the process cannot be started the launch throws a spawn error
\* and leaves no session for it in the sessions map; a launch that has
\* returned an id has a started process.
C17_SpawnFailureLeavesNoSession ==
    /\ lastLaunch.outcome \in {"spawnThrew", "spawnError"} =>
          /\ lastLaunch.error.message = "spawn"
          /\ lastLaunch.session = NULL
    /\ lastLaunch.session # NULL => objs[lastLaunch.session].handle = "open"
    /\ \A id \in SessionIds :
          sessions[id] # NULL => objs[sessions[id]].handle # "failed"

\* C18: a launch whose prompt file cannot be written throws; no process is
\* spawned, no session stored, and the current session id is unchanged.
C18_WriteFailureAborts ==
    [][lastLaunch'.outcome = "writeFailed"
          => /\ lastLaunch'.error.message # ""
             /\ lastLaunch'.session = NULL
             /\ UNCHANGED <<objs, files, sessions, currentSessionId>>
      ]_vars

\* C18 witness: a launch has just failed on writing its prompt file while an
\* earlier session is current and its prompt file is in place.
C18_Witness ==
    /\ lastLaunch.outcome = "writeFailed"
    /\ files[lastLaunch.dir] # NULL
    /\ currentSessionId # NULL
    /\ sessions[currentSessionId] # NULL

\* C19: when the removal of the prompt file fails in a stop call (the file
\* was there and is still there afterwards), the call still completes: it
\* returns the session's result, gives the same result to the waiter
\* registered for the session, and the session leaves the map.
C19_UnlinkFailureSwallowed ==
    [][\A c \in DOMAIN stops :
          LET o == stops[c].session
              sid == objs[o].sessionId
              d == objs[o].testDir
              w == sessionCompletionCallbacks[sid]
          IN (/\ stops[c].phase = "inner" /\ stops'[c].phase # "inner"
              /\ files[d] # NULL /\ files'[d] = files[d])
             => /\ Len(stops'[c].returned) = 1
                /\ stops'[c].returned[1].sessionId = sid
                /\ stops'[c].phase \in {"outer", "done"}
                /\ sessions'[sid] = NULL
                /\ sessionCompletionCallbacks'[sid] = NULL
                /\ w # NULL =>
                      waiters'[w].delivered =
                          Append(waiters[w].delivered, stops'[c].returned[1])
      ]_vars

\* C19 witness: a stop call is done and returned its result, the waiter of
\* the session has the same result, the session is out of the map, and the
\* session's prompt file is still there.
C19_Witness ==
    \E c \in DOMAIN stops, w \in DOMAIN waiters :
        /\ stops[c].phase = "done"
        /\ stops[c].session # NULL
        /\ files[objs[stops[c].session].testDir] = stops[c].session
        /\ stops[c].returned # <<>>
        /\ waiters[w].delivered = stops[c].returned
        /\ sessions[objs[stops[c].session].sessionId] = NULL

\* C20: cleanupAllSessions() (the only step that takes sessions out of the
\* map without a stop call resuming, a waiter being signalled or a launch)
\* leaves the map empty and no session current, and has sent SIGKILL, and
\* nothing else, to the process of every session that was in the map and had
\* not exited; it arms no timer and waits for nothing, whether or not the
\* removal of a prompt file failed.
C20_CleanupAll ==
    [][(/\ sessions' # sessions
        /\ stops' = stops /\ waiters' = waiters /\ lastLaunch' = NoLaunch)
          => /\ \A id \in SessionIds : sessions'[id] = NULL
             /\ currentSessionId' = NULL
             /\ microtasks' = <<>>
             /\ \A id \in SessionIds :
                   sessions[id] # NULL =>
                       LET o == sessions[id] IN
                       objs'[o].signals =
                           IF objs[o].handle = "open"
                           THEN Append(objs[o].signals, "SIGKILL")
                           ELSE objs[o].signals
      ]_vars

\* C20 witness: two sessions were killed by cleanupAllSessions with SIGKILL
\* as the only signal their processes ever got, the map is empty, no session
\* is current, and a prompt file whose removal failed is still there.
C20_Witness ==
    /\ \A id \in SessionIds : sessions[id] = NULL
    /\ currentSessionId = NULL
    /\ Len(objs) = 2
    /\ \A o \in DOMAIN objs : objs[o].signals = <<"SIGKILL">>
    /\ \E d \in TestDirs : files[d] # NULL

\* The response stop_dev_extension gives for the finished call c.
ResponseOf(c) ==
    stopDevExtensionResponse(stops[c].kind, stops[c].session # NULL, stops[c].returned)

\* C22: whenever stop_dev_extension finds no matching session, with a
\* sessionId that is not in the map as well as without a sessionId when no
\* session is current, its response is a `nothing to stop` text that is not
\* marked as an error.
C22_NothingToStopIsNoError ==
    \A c \in DOMAIN stops :
        (stops[c].phase = "done" /\ stops[c].session = NULL)
        => /\ ResponseOf(c).isError = FALSE
           /\ ResponseOf(c).text \in
                 {"No VSCode extension test found with session ID. Nothing to stop.",
                  "No active VSCode extension test found. Nothing to stop."}

\* C26: a suspended stopSessionById(A) blocks nothing on another id B: while
\* the call waits, a launch, stopSessionById(B), waitForSessionCompletion(B),
\* the exit event of B's process and the expired timer of a stop on B are
\* all enabled (as far as the bounds on calls allow a further call).
C26_NoCrossBlocking ==
    \A c \in DOMAIN stops :
        (stops[c].kind = "byId" /\ stops[c].phase = "waiting" /\ microtasks = <<>>)
        => /\ \A id \in generateSessionId, d \in TestDirs :
                 ENABLED launchExtension(id, d, "ok")
           /\ \A B \in SessionIds \ {stops[c].arg} :
                 /\ Len(stops) < MaxStops => ENABLED stopSessionById(B)
                 /\ Len(waiters) < MaxWaiters => ENABLED waitForSessionCompletion(B)
           /\ \A o \in DOMAIN objs :
                 (objs[o].sessionId # stops[c].arg /\ objs[o].handle = "open")
                 => \A code \in NextExitCodes : ENABLED ProcessExit(o, code, TRUE)
           /\ \A t \in DOMAIN stops :
                 (/\ stops[t].session # NULL
                  /\ objs[stops[t].session].sessionId # stops[c].arg
                  /\ stops[t].phase = "waiting" /\ now >= stops[t].deadline)
                 => ENABLED GraceTimeout(t)

\* C26 witness: stopSessionById(A) is still suspended while a later
\* stopSessionById(B) on another session has run to completion and returned
\* B's result.
C26_Witness ==
    \E c \in DOMAIN stops, t \in DOMAIN stops :
        /\ c < t
        /\ stops[c].kind = "byId" /\ stops[c].phase = "waiting"
        /\ stops[t].kind = "byId" /\ stops[t].phase = "done"
        /\ stops[t].arg # stops[c].arg
        /\ stops[t].returned # <<>>
        /\ stops[t].returned[1].sessionId = stops[t].arg

\* C28: the duration in the result of stopSessionById is measured when the
\* termination has finished: when the call resumes (exit observed or grace
\* period over) the duration it returns is at least the time from the
\* session's start to that moment.
C28_DurationAfterTermination ==
    [][\A c \in DOMAIN stops :
          (/\ stops[c].kind = "byId"
           /\ stops[c].phase = "inner" /\ stops'[c].phase # "inner")
          => /\ stops'[c].returned # <<>>
             /\ stops'[c].returned[1].duration >= now - objs[stops[c].session].startTime
      ]_vars

C30_WritePromptFrame ==
    [][lastWrite'.outcome # "none"
       => /\ UNCHANGED <<sessions, currentSessionId, sessionCompletionCallbacks, objs>>
          /\ (lastWrite'.copy => lastWrite'.prompt)
          /\ (lastWrite'.prompt => files'[lastWrite'.dir] = FakePrompt)
          /\ (~lastWrite'.isError
                => /\ lastWrite'.prompt /\ lastWrite'.copy
                   /\ dirs'[lastWrite'.dir])]_vars

\* A prompt written without an error while a launched session is current and
\* has a completion callback registered.
C30_Witness ==
    /\ lastWrite.outcome = "ok"
    /\ currentSessionId # NULL
    /\ sessions[currentSessionId] # NULL
    /\ sessionCompletionCallbacks[currentSessionId] # NULL
    /\ files[lastWrite.dir] = FakePrompt

\* C21: no launch returns a session id that an earlier launch returned: the
\* session objects created so far have pairwise different ids.
C21_IdsNeverReused ==
    \A o1, o2 \in DOMAIN objs : o1 # o2 => objs[o1].sessionId # objs[o2].sessionId

\* s is t or the beginning of t.
IsPrefix(s, t) == Len(s) <= Len(t) /\ SubSeq(t, 1, Len(s)) = s

\* C27: the output of a session is the sequence of the chunks its stdout has
\* carried, in the order of arrival, and its errors that of its stderr; no
\* step takes anything from a log or changes what is in it; and the output
\* and errors of every result returned by a stop or delivered to a waiter
\* are the logs of the session the call was about.
C27_LogsAreStreams ==
    /\ [](\A o \in DOMAIN objs :
             /\ objs[o].output = objs[o].stdout
             /\ objs[o].errors = objs[o].stderr)
    /\ [][\A o \in DOMAIN objs :
             /\ IsPrefix(objs[o].output, objs'[o].output)
             /\ IsPrefix(objs[o].errors, objs'[o].errors)]_vars
    /\ [](\A c \in DOMAIN stops : \A i \in DOMAIN stops[c].returned :
             /\ stops[c].returned[i].output = stops[c].session
             /\ stops[c].returned[i].errors = stops[c].session)
    /\ [](\A w \in DOMAIN waiters : \A i \in DOMAIN waiters[w].delivered :
             LET result == waiters[w].delivered[i] IN
             /\ result.output = result.errors
             /\ objs[result.output].sessionId = waiters[w].sessionId)

\* C27 witness: a stop has returned the result of a session whose stdout
\* carried "x" and then "y" and whose stderr carried nothing, while the logs
\* of another session stayed empty.
C27_Witness ==
    \E c \in DOMAIN stops, o \in DOMAIN objs :
        /\ stops[c].returned # <<>>
        /\ objs[stops[c].session].output = <<"x", "y">>
        /\ objs[stops[c].session].errors = <<>>
        /\ o # stops[c].session
        /\ objs[o].output = <<>>

\* C24: every call of stopSessionById / stopCurrentSession that found its
\* session in the map returns in the end, with the session's result and with
\* no error, whether the process exits in time, never exits, or had exited
\* before the call.
C24_StopReturnsResult ==
    /\ \A c \in 1..MaxStops :
          (c \in DOMAIN stops /\ stops[c].session # NULL)
          ~> (/\ c \in DOMAIN stops
              /\ stops[c].phase = "done"
              /\ Len(stops[c].returned) = 1
              /\ stops[c].returned[1].sessionId = objs[stops[c].session].sessionId
              /\ ResponseOf(c).isError = FALSE)
    /\ [](\A c \in DOMAIN stops :
             (stops[c].phase = "done" /\ stops[c].session # NULL)
             => (Len(stops[c].returned) = 1 /\ ResponseOf(c).isError = FALSE))

\* C24 witness: a stop call has returned the result of a process that got
\* SIGTERM and never exited, and another one that of a process that had
\* exited before the call.
C24_Witness ==
    \E c1, c2 \in DOMAIN stops :
        /\ stops[c1].phase = "done" /\ stops[c1].returned # <<>>
        /\ objs[stops[c1].session].signals = <<"SIGTERM">>
        /\ objs[stops[c1].session].handle = "open"
        /\ stops[c2].phase = "done" /\ stops[c2].returned # <<>>
        /\ objs[stops[c2].session].signals = <<>>
        /\ objs[stops[c2].session].handle = "closed"

\* C25: a waiter accepted for a session is unblocked by the stop of that
\* session - once a stop call on the session has returned its result, every
\* waiter accepted for the session has been given a result - and a waiter is
\* given a result only by a step of a stop call resuming or of the handler
\* of an 'exit' event.
C25_StopUnblocksWaiter ==
    /\ [](\A c \in DOMAIN stops : \A w \in DOMAIN waiters :
             (/\ stops[c].phase = "done"
              /\ stops[c].returned # <<>>
              /\ waiters[w].status = "pending"
              /\ waiters[w].sessionId = stops[c].returned[1].sessionId)
             => waiters[w].delivered # <<>>)
    /\ [][\A w \in DOMAIN waiters :
             waiters'[w].delivered # waiters[w].delivered
             => \/ \E c \in DOMAIN stops :
                      stops[c].phase = "inner" /\ stops'[c].returned # <<>>
                \/ \E o \in DOMAIN objs :
                      objs[o].handle = "open" /\ objs'[o].handle = "closed"]_vars

\* C34: the current session id is null or the id of a session that is in
\* the sessions map.
C34_CurrentIsRegistered ==
    currentSessionId # NULL => sessions[currentSessionId] # NULL

\* C35: every session id that has a completion callback stored is in the
\* sessions map.
C35_CallbackImpliesRegistered ==
    \A id \in SessionIds :
        sessionCompletionCallbacks[id] # NULL => sessions[id] # NULL

\* C36: every waiter accepted for a session has been given a result once the
\* session has left the sessions map, the first of two waiters of the same
\* session as well as the second.
C36_NoWaiterLost ==
    \A w \in DOMAIN waiters :
        (waiters[w].status = "pending" /\ sessions[waiters[w].sessionId] = NULL)
        => waiters[w].delivered # <<>>

\* C37: a stopCurrentSession() called while a stopSessionById(A) is suspended
\* in its grace period, A not having been current when that call began, does
\* not take A as its session.
C37_StopCurrentSparesA ==
    [][\A c \in DOMAIN stops :
          (/\ Len(stops') = Len(stops) + 1
           /\ stops'[Len(stops')].kind = "current"
           /\ stops[c].kind = "byId"
           /\ stops[c].phase = "waiting"
           /\ stops[c].previous # stops[c].arg)
          => stops'[Len(stops')].session # stops[c].session
      ]_vars

\* C38: no step removes the prompt file of a session that is in the sessions
\* map before and after the step: the file that holds the prompt of such a
\* session is still there after the step, with that prompt or with the one a
\* later launch has written over it.
C38_PromptOfLiveSessionKept ==
    [][\A d \in TestDirs : \A o \in DOMAIN objs :
          (/\ files[d] = o
           /\ sessions[objs[o].sessionId] = o
           /\ sessions'[objs[o].sessionId] = o)
          => files'[d] # NULL
      ]_vars

\* C33: the exit code of the result a stop call returns is the code of the
\* 'exit' event when the event came while the call was waiting, and null when
\* the call's timer fired first or the process had exited before the call:
\* a call starts with no code, the event gives its code to the calls that
\* wait on the process and to no other, the timer gives none, nothing changes
\* the code of a call that waits no more, and the result carries the code
\* the call has.
C33_ExitCodeOfStop ==
    [][\A c \in DOMAIN stops' :
          IF c \notin DOMAIN stops
          THEN stops'[c].exitCode = "null"
          ELSE LET o == stops[c].session IN
               /\ (stops[c].phase = "waiting" /\ stops'[c].phase = "inner")
                     => stops'[c].exitCode =
                            IF objs[o].handle = "open" /\ objs'[o].handle = "closed"
                            THEN objs'[o].exitCode ELSE "null"
               /\ ~(stops[c].phase = "waiting" /\ stops'[c].phase = "inner")
                     => stops'[c].exitCode = stops[c].exitCode
               /\ (stops[c].returned = <<>> /\ stops'[c].returned # <<>>)
                     => stops'[c].returned[1].exitCode = stops[c].exitCode
      ]_vars

\* C33 witness: two finished stop calls, one with the code of the exit it
\* saw, the other on a process that had exited with a code before the call
\* and was sent no signal: its result has no exit code.
C33_Witness ==
    \E c1, c2 \in DOMAIN stops :
        /\ stops[c1].phase = "done" /\ stops[c1].returned # <<>>
        /\ stops[c1].returned[1].exitCode # "null"
        /\ stops[c1].returned[1].exitCode = objs[stops[c1].session].exitCode
        /\ stops[c2].phase = "done" /\ stops[c2].returned # <<>>
        /\ stops[c2].returned[1].exitCode = "null"
        /\ objs[stops[c2].session].exitCode # "null"
        /\ objs[stops[c2].session].signals = <<>>

\* C39: no 'exit' event of the process a launch_dev_extension call has
\* spawned is handled before the call has registered its waiter - while the
\* call is between its launch and its wait, its continuation is the next
\* thing to run and the process's exit has not been handled - and the wait
\* is never refused; so once the exit of such a process has been handled,
\* the call has been given its result.
C39_WaiterBeforeExit ==
    \A w \in DOMAIN waiters :
        waiters[w].tool =>
            LET o == sessions[waiters[w].sessionId] IN
            /\ waiters[w].status # "rejected"
            /\ waiters[w].status = "launching"
                  => /\ microtasks = <<ToolContinuation(w)>>
                     /\ o # NULL
                     /\ objs[o].handle # "closed"
                     /\ sessionCompletionCallbacks[waiters[w].sessionId] = NULL
            /\ \A p \in DOMAIN objs :
                  (objs[p].sessionId = waiters[w].sessionId /\ objs[p].handle = "closed")
                  => waiters[w].delivered # <<>>

\* C39 witness: the process of a launch_dev_extension call exited at the very
\* time of its launch, with no stop called on it, and the call has got the
\* result with the code of that exit.
C39_Witness ==
    \E w \in DOMAIN waiters : \E p \in DOMAIN objs :
        /\ waiters[w].tool
        /\ objs[p].sessionId = waiters[w].sessionId
        /\ objs[p].handle = "closed"
        /\ CallsOn(p) = {}
        /\ Len(waiters[w].delivered) = 1
        /\ waiters[w].delivered[1].duration = 0
        /\ waiters[w].delivered[1].exitCode = objs[p].exitCode

\* C31: after a launch that returned a session id, the test directory holds
\* both .PROMPT and PROMPT.txt, each with the prompt and the block naming the
\* session id the launch returned.
C31_BothArtifacts ==
    [][(lastLaunch'.outcome # "none" /\ lastLaunch'.session # NULL)
          => /\ files'[lastLaunch'.dir] = lastLaunch'.session
             /\ visiblePrompts'[lastLaunch'.dir] = lastLaunch'.session
      ]_vars

\* C31, amended: after a launch that returned a session id, .PROMPT in the
\* test directory holds the prompt and the block naming the id the launch
\* returned; the launch leaves PROMPT.txt as it was, and PROMPT.txt, where it
\* exists, holds a prompt written by write_prompt_file, naming no session.
C31_PromptArtifactOnly ==
    /\ [][(lastLaunch'.outcome # "none" /\ lastLaunch'.session # NULL)
             => LET o == lastLaunch'.session IN
                /\ files'[lastLaunch'.dir] = o
                /\ objs'[o].testDir = lastLaunch'.dir
                /\ sessions'[objs'[o].sessionId] = o
                /\ UNCHANGED visiblePrompts
          ]_vars
    /\ [](\A d \in TestDirs : visiblePrompts[d] \in {NULL, FakePrompt})

\* C31 witness: a launch has just returned the id of its session with its
\* prompt in .PROMPT, in a directory whose PROMPT.txt holds what an earlier
\* write_prompt_file wrote.
C31_Witness ==
    /\ lastLaunch.outcome = "ok"
    /\ files[lastLaunch.dir] = lastLaunch.session
    /\ visiblePrompts[lastLaunch.dir] = FakePrompt

\* C32: the results part of a tool response is the combined output and
\* error text unchanged, with no marker, when that text has at most 1000
\* characters, and otherwise exactly its first 1000 characters followed by
\* the truncation marker.
C32_ResultsTruncated ==
    \A o \in DOMAIN objs :
        lastResponse.tool # "none" =>
            LET combined == resultText(objs[o].output, objs[o].errors)
                shown == lastResponse.results
            IN  IF Len(combined) <= 1000
                THEN /\ shown = combined
                     /\ \A i \in DOMAIN shown : shown[i][1] # TruncationMarker[1][1]
                ELSE /\ Len(shown) = 1000 + Len(TruncationMarker)
                     /\ \A i \in 1..1000 : shown[i] = combined[i]
                     /\ \A j \in DOMAIN TruncationMarker :
                           shown[1000 + j] = TruncationMarker[j]

\* C32 witness: a combined text of exactly 1000 characters, made of output
\* and errors, has been put into a response whole.
C32_Witness ==
    /\ lastResponse.tool = "stop_dev_extension"
    /\ Len(lastResponse.results) = 1000
    /\ Len(objs[1].output) = 1
    /\ Len(objs[1].errors) = 1

====
